---- MODULE Spec2Model ----
(***************************************************************************)
(* Model of the image generation queue hook                                *)
(* (src/app/hooks/useImageGenerationQueue.js) together with the Firestore  *)
(* adapter (src/app/services/firebase/generationsService.js).              *)
(*                                                                         *)
(* The in-memory list `queue` is a React state cell.  Every call of        *)
(* setQueue is one transition of that cell.  The synchronous remainder of  *)
(* a handler (the start of processGeneration that addToQueue,              *)
(* retryGeneration and runAgain call right after their own setQueue) is    *)
(* forced to run before anything else: while `sync` is set no other        *)
(* action is enabled.  The passive effects of a render (the localStorage   *)
(* backup and the active counter) run after the synchronous block and      *)
(* before the next handler.  Every `await` of a network call is a          *)
(* suspension point at which other handlers may run.                       *)
(*                                                                         *)
(* Only the first input slot (image1 / referenceImage1Url) is modelled;    *)
(* the code treats the second slot identically.                            *)
(***************************************************************************)
EXTENDS Integers, Sequences, FiniteSets, TLC

\* ---------------------------------------------------------------- bounds
\* number of events (queue operations, connectivity changes, reloads) in a behaviour
MaxOps == 3

\* number of generations created (addToQueue, runAgain) in a behaviour
MaxJobs == 1

\* ---------------------------------------------------------------- values
Null == "null"

\* JSON.stringify of a File object gives "{}"
EmptyObject == "{}"

ActiveStatuses == {"pending", "uploading", "processing"}

Statuses == ActiveStatuses \cup {"completed", "failed"}

\* what a caller submits: a prompt (a character sequence, so that trim() is a
\* real conversion) without reference images; generations with a reference
\* image come from the earlier session (PriorRecord)
Submissions == { [prompt |-> <<" ", "a">>, image1 |-> Null] }

\* error.message of the catch block: data.error of the route, or the default
ErrorMessages == {"Failed to process generation"}

\* the id of the generation an earlier session may have left in the stores
PriorId == -1

\* an id no record carries
UnknownId == -2

\* Firestore auto-generated document ids live in another namespace than
\* the uuidv4 job ids
DocIdBase == 100

VARIABLES
  queue,              \* useState([]) : the in-memory list, newest first
  activeGenerations,  \* useState(0)
  isLoading,          \* useState(true)
  isOnline,           \* useState(navigator.onLine)
  mountOnline,        \* isOnline as captured by the first render's closures
  localStorage,       \* blob under STORAGE_KEY: whether it was ever written, and its parsed items
  firestore,          \* the imageGenerations collection, newest first
  nextId,             \* uuidv4(): ids are never reused
  sync,               \* <<generation>> whose processGeneration call is pending in the current synchronous block, else <<>>
  drives,             \* processGeneration coroutines suspended at an await
  awaiting,           \* handlers suspended at an await (remove, clear, runAgain)
  loadPc,             \* position of loadQueue
  loaded,             \* loadQueue's local data between its awaits
  effectsPending,     \* a render was committed whose effects have not run yet
  removedInFlight,    \* history: ids removed while their Remote Generation Call was in flight
  removals,           \* history: the ids removeFromQueue's list update ran for in this session, in order
  blobUrls,           \* the document's blob URL store: the handles createObjectURL gave out, and the revokeObjectURL calls on them, in order
  persistedInFlight,  \* history: job ids each store held with an in-flight status when the session started (until the startup load is over)
  ops,                \* number of events so far
  lastOp              \* history: the operation that ran last, until the effects of its render have run

vars == <<queue, activeGenerations, isLoading, isOnline, mountOnline, localStorage,
          firestore, nextId, sync, drives, awaiting, loadPc, loaded, effectsPending,
          removedInFlight, removals, blobUrls, persistedInFlight, ops, lastOp>>

\* ---------------------------------------------------------------- helpers
RECURSIVE TrimStart(_)
TrimStart(s) == IF s # <<>> /\ Head(s) = " " THEN TrimStart(Tail(s)) ELSE s

RECURSIVE TrimEnd(_)
TrimEnd(s) == IF s # <<>> /\ s[Len(s)] = " " THEN TrimEnd(SubSeq(s, 1, Len(s) - 1)) ELSE s

\* String.prototype.trim
Trim(s) == TrimEnd(TrimStart(s))

Ids(q) == {q[i].id : i \in DOMAIN q}

\* prev.find(item => item.id === id), for an id known to be present
Find(q, id) == q[CHOOSE i \in DOMAIN q : q[i].id = id /\ \A j \in DOMAIN q : q[j].id = id => i <= j]

\* { ...item, ...updates }
Merge(item, updates) == [f \in DOMAIN item |-> IF f \in DOMAIN updates THEN updates[f] ELSE item[f]]

\* a faulty variant of the map: it merges the updates into every record
MapUpdateAll(q, id, updates) == [i \in DOMAIN q |-> Merge(q[i], updates)]

\* prev.map(item => item.id === id ? { ...item, ...updates } : item)
MapUpdate(q, id, updates) == [i \in DOMAIN q |-> IF q[i].id = id THEN Merge(q[i], updates) ELSE q[i]]

\* a faulty variant of the filter: when no record has the id it drops the head
FilterOutIdOrHead(q, id) ==
  IF id \in Ids(q) \/ q = <<>> THEN SelectSeq(q, LAMBDA item : item.id # id) ELSE Tail(q)

\* prev.filter(item => item.id !== id)
FilterOutId(q, id) == SelectSeq(q, LAMBDA item : item.id # id)

\* a faulty variant of the filter with the comparison inverted: it keeps the
\* records of that status and drops the others
FilterInStatus(q, status) == SelectSeq(q, LAMBDA item : item.status = status)

\* prev.filter(item => item.status !== status)
FilterOutStatus(q, status) == SelectSeq(q, LAMBDA item : item.status # status)

\* queue.filter(item => item.status === status).map(item => item.id)
IdsWithStatus(q, status) == {q[i].id : i \in {j \in DOMAIN q : q[j].status = status}}

\* queue.filter(item => [...].includes(item.status)).length
ActiveCount(q) == Cardinality({i \in DOMAIN q : q[i].status \in ActiveStatuses})

\* status: [...].includes(item.status) ? 'failed' : item.status
CoerceFailed(q) == [i \in DOMAIN q |-> Merge(q[i], [status |-> IF q[i].status \in ActiveStatuses THEN "failed" ELSE q[i].status])]

\* the object built by addToQueue / runAgain.  thumbnail is thumbnails.image1
\* when it is a blob URL: <<h>> for the handle h, <<>> for none or any other URL
NewGeneration(id, image1, prompt, refUrl, thumbnail) ==
  [id |-> id, status |-> "pending", prompt |-> prompt, progress |-> 0, result |-> Null,
   error |-> Null, image1 |-> image1, referenceImage1Url |-> refUrl, thumbnail |-> thumbnail]

\* a page that has created no blob URL
NoBlobUrls == [created |-> {}, revoked |-> <<>>]

\* URL.createObjectURL: a fresh handle, named after the record it is made for
CreateObjectURL(urls, h) == [urls EXCEPT !.created = @ \cup {h}]

\* URL.revokeObjectURL: nothing happens for a URL this document did not create
RevokeObjectURL(urls, h) ==
  IF h \in urls.created THEN [urls EXCEPT !.revoked = Append(@, h)] ELSE urls

\* the clean-up of the thumbnails of items, in list order
RECURSIVE RevokeThumbnails(_, _)
RevokeThumbnails(urls, items) ==
  IF items = <<>> THEN urls
  ELSE RevokeThumbnails(IF Head(items).thumbnail = <<>> THEN urls
                        ELSE RevokeObjectURL(urls, Head(items).thumbnail[1]),
                        Tail(items))

\* the storage URL the API route returns for an uploaded reference image
UrlOf(image) == IF image = "file" THEN "url:file" ELSE Null

\* fetch(url) followed by new File([blob]): the content behind the URL
FetchUrl(url) == IF url = "url:file" THEN "file" ELSE Null

\* the JSON body of a successful /api/generate-image response (an opaque non-null value)
ResponseData == "data"

\* JSON.stringify(queue) followed by JSON.parse: File objects become {}
Serialize(q) == [i \in DOMAIN q |-> Merge(q[i], [image1 |-> IF q[i].image1 = Null THEN Null ELSE EmptyObject])]

\* ---------------------------------------------------------------- Firestore adapter
\* addDoc: a new document under a fresh auto-generated id; the job id is only a field
SaveGeneration(store, generation) ==
  <<[docId |-> DocIdBase + Len(store) + 1, data |-> generation]>> \o store

\* getGenerations: { id: doc.id, ...data } ordered by timestamp desc
GetGenerations(store) ==
  [i \in DOMAIN store |-> IF "id" \in DOMAIN store[i].data THEN store[i].data
                          ELSE Merge(store[i].data, [id |-> store[i].docId])]

\* updateDoc(doc(db, collection, id)): rejects when no document has that document id
UpdateGenerationOk(store, id) == \E i \in DOMAIN store : store[i].docId = id

UpdateGeneration(store, id, updates) ==
  [i \in DOMAIN store |-> IF store[i].docId = id
                          THEN [store[i] EXCEPT !.data = Merge(store[i].data, updates)]
                          ELSE store[i]]

\* deleteDoc(doc(db, collection, id)): silently does nothing when the document is missing
DeleteGeneration(store, id) == SelectSeq(store, LAMBDA d : d.docId # id)

RECURSIVE DeleteGenerations(_, _)
DeleteGenerations(store, ids) ==
  IF ids = {} THEN store
  ELSE LET id == CHOOSE x \in ids : TRUE
       IN DeleteGenerations(DeleteGeneration(store, id), ids \ {id})

RECURSIVE UpdateGenerations(_, _, _)
UpdateGenerations(store, ids, updates) ==
  IF ids = {} THEN store
  ELSE LET id == CHOOSE x \in ids : TRUE
       IN UpdateGenerations(UpdateGeneration(store, id, updates), ids \ {id}, updates)

JobIdsIn(store) == {store[i].data.id : i \in DOMAIN store}

\* ---------------------------------------------------------------- history
NoOp(name) == [op |-> name, id |-> UnknownId]

\* a processGeneration whose closure saw isOnline = false awaits nothing but a
\* resolved promise between its first two status updates: it resumes in the
\* same task, before any other handler or network answer
Microtask == \E i \in DOMAIN drives : ~drives[i].online /\ drives[i].pc = "uploading"

\* no synchronous block is open and the effects of the last render have run
Settled == sync = <<>> /\ ~effectsPending /\ loadPc # "start"

\* a new task (an event handler, a network answer) can start
Quiet == Settled /\ ~Microtask

\* the queue view (retry, run again, remove, clear) is rendered only once loading has ended
Ready == Quiet /\ ~isLoading

\* ---------------------------------------------------------------- effects
\* the two effects that depend on [queue]: localStorage backup and active counter
RunEffects ==
  /\ effectsPending
  /\ sync = <<>>
  /\ localStorage' = IF isLoading THEN localStorage
                     ELSE [saved |-> TRUE, items |-> Serialize(queue)]
  /\ activeGenerations' = ActiveCount(queue)
  /\ effectsPending' = FALSE
  /\ lastOp' = NoOp("idle")
  /\ persistedInFlight' = IF loadPc = "done" THEN [local |-> {}, remote |-> {}]
                          ELSE persistedInFlight
  /\ UNCHANGED <<queue, isLoading, isOnline, mountOnline, firestore, nextId, sync, drives,
                 awaiting, loadPc, loaded, removedInFlight, removals, blobUrls, ops>>

\* ---------------------------------------------------------------- loadQueue
\* the localStorage fallback used offline and in the catch block
LocalRestore(q) == IF localStorage.saved THEN CoerceFailed(localStorage.items) ELSE q

LoadStart ==
  /\ loadPc = "start"
  /\ sync = <<>>
  /\ IF isOnline
     THEN /\ isLoading' = TRUE
          /\ loadPc' = "fetching"
          /\ UNCHANGED queue
     ELSE /\ queue' = LocalRestore(queue)
          /\ isLoading' = FALSE
          /\ loadPc' = "done"
  /\ effectsPending' = TRUE
  /\ lastOp' = NoOp(IF isOnline THEN "loadStart" ELSE "loadOffline")
  /\ UNCHANGED <<activeGenerations, isOnline, mountOnline, localStorage, firestore, nextId,
                 sync, drives, awaiting, loaded, removedInFlight, removals, blobUrls, persistedInFlight,
                 ops>>

\* generationsToMigrate restricted to completed / failed
MigrationCandidates(local, remote) ==
  SelectSeq(local, LAMBDA lg : lg.id \notin Ids(remote) /\ lg.status \in {"completed", "failed"})

\* the document written for a migrated generation
MigrationData(generation) == Merge(generation, [image1 |-> Null])

RECURSIVE SaveAll(_, _)
SaveAll(store, gens) ==
  IF gens = <<>> THEN store ELSE SaveAll(SaveGeneration(store, Head(gens)), Tail(gens))

\* ids of the failedUpdates: coerced items whose first entry with that id was in flight
FailedUpdateIds(all) == {all[i].id : i \in {j \in DOMAIN all : Find(all, all[j].id).status \in ActiveStatuses}}

LoadFetchFailed ==
  /\ loadPc = "fetching"
  /\ Quiet
  /\ queue' = LocalRestore(queue)
  /\ isLoading' = FALSE
  /\ loadPc' = "done"
  /\ effectsPending' = TRUE
  /\ lastOp' = NoOp("loadFallback")
  /\ UNCHANGED <<activeGenerations, isOnline, mountOnline, localStorage, firestore, nextId,
                 sync, drives, awaiting, loaded, removedInFlight, removals, blobUrls, persistedInFlight,
                 ops>>

LoadFetched ==
  /\ loadPc = "fetching"
  /\ Quiet
  /\ LET firestoreGenerations == GetGenerations(firestore)
         localGenerations == IF localStorage.saved THEN localStorage.items ELSE <<>>
         candidates == MigrationCandidates(localGenerations, firestoreGenerations)
     IN \E saved \in SUBSET Ids(candidates) :
          LET migratedGenerations ==
                [i \in DOMAIN SelectSeq(candidates, LAMBDA g : g.id \in saved) |->
                   MigrationData(SelectSeq(candidates, LAMBDA g : g.id \in saved)[i])]
              allGenerations == firestoreGenerations \o migratedGenerations
              updateIds == FailedUpdateIds(allGenerations)
          IN /\ firestore' = UpdateGenerations(SaveAll(firestore, migratedGenerations),
                                                updateIds, [status |-> "failed"])
             /\ queue' = CoerceFailed(allGenerations)
             /\ IF updateIds # {}
                THEN /\ loadPc' = "updating"
                     /\ loaded' = <<\A id \in updateIds :
                                       UpdateGenerationOk(SaveAll(firestore, migratedGenerations), id)>>
                     /\ UNCHANGED isLoading
                ELSE /\ loadPc' = "done"
                     /\ isLoading' = FALSE
                     /\ UNCHANGED loaded
  /\ effectsPending' = TRUE
  /\ lastOp' = NoOp("loadOnline")
  /\ UNCHANGED <<activeGenerations, isOnline, mountOnline, localStorage, nextId,
                 sync, drives, awaiting, removedInFlight, removals, blobUrls, persistedInFlight, ops>>

\* await Promise.all(failedUpdates): a rejection lands in the catch block
LoadUpdated ==
  /\ loadPc = "updating"
  /\ Quiet
  /\ \E networkOk \in BOOLEAN :
       IF networkOk /\ loaded[1]
       THEN /\ UNCHANGED queue
            /\ lastOp' = NoOp("loadUpdated")
       ELSE /\ queue' = LocalRestore(queue)
            /\ lastOp' = NoOp("loadFallback")
  /\ isLoading' = FALSE
  /\ loadPc' = "done"
  /\ loaded' = <<>>
  /\ effectsPending' = TRUE
  /\ UNCHANGED <<activeGenerations, isOnline, mountOnline, localStorage, firestore, nextId,
                 sync, drives, awaiting, removedInFlight, removals, blobUrls, persistedInFlight, ops>>

\* ---------------------------------------------------------------- connectivity and reload
\* the window 'online' / 'offline' listeners; the load effect depends on [isOnline]
ToggleOnline ==
  /\ ops < MaxOps
  /\ Quiet
  /\ loadPc = "done"
  /\ isOnline' = ~isOnline
  /\ loadPc' = "start"
  /\ ops' = ops + 1
  /\ persistedInFlight' = [local |-> {}, remote |-> {}]
  /\ lastOp' = NoOp("toggleOnline")
  /\ UNCHANGED <<queue, activeGenerations, isLoading, mountOnline, localStorage, firestore,
                 nextId, sync, drives, awaiting, loaded, effectsPending, removedInFlight, removals, blobUrls>>

\* ids a store holds with an in-flight status
InFlightIds(q) == {q[i].id : i \in {j \in DOMAIN q : q[j].status \in ActiveStatuses}}

\* the page is reloaded: a new mount of the hook over the same two stores
Reload ==
  /\ ops < MaxOps
  /\ Quiet
  /\ queue' = <<>>
  /\ activeGenerations' = 0
  /\ isLoading' = TRUE
  /\ isOnline' \in BOOLEAN
  /\ mountOnline' = isOnline'
  /\ sync' = <<>>
  /\ drives' = <<>>
  /\ awaiting' = {}
  /\ loadPc' = "start"
  /\ loaded' = <<>>
  /\ effectsPending' = FALSE
  /\ removedInFlight' = {}
  /\ removals' = <<>>
  /\ blobUrls' = NoBlobUrls
  /\ persistedInFlight' = [local |-> InFlightIds(localStorage.items),
                           remote |-> InFlightIds(GetGenerations(firestore))]
  /\ ops' = ops + 1
  /\ lastOp' = NoOp("mount")
  /\ UNCHANGED <<localStorage, firestore, nextId>>

\* ---------------------------------------------------------------- processGeneration
Drive(gen, online, pc) ==
  [id |-> gen.id, prompt |-> gen.prompt, image1 |-> gen.image1, online |-> online, pc |-> pc]

\* the coroutines have no order of their own: keep them sorted by id
InsertDrive(s, d) ==
  LET k == Cardinality({i \in DOMAIN s : s[i].id <= d.id})
  IN SubSeq(s, 1, k) \o <<d>> \o SubSeq(s, k + 1, Len(s))

RemoveAt(s, i) == SubSeq(s, 1, i - 1) \o SubSeq(s, i + 1, Len(s))

\* updateGenerationStatus: the list first, then Firestore if the closure saw isOnline
StatusUpdate(id, online, updates) ==
  /\ queue' = MapUpdate(queue, id, updates)
  /\ firestore' = IF online THEN UpdateGeneration(firestore, id, updates) ELSE firestore
  /\ effectsPending' = TRUE

\* processGeneration up to its first await: status uploading
ProcessStart ==
  /\ sync # <<>>
  /\ StatusUpdate(sync[1].gen.id, sync[1].online, [status |-> "uploading", progress |-> 10])
  /\ drives' = InsertDrive(drives, Drive(sync[1].gen, sync[1].online, "uploading"))
  /\ sync' = <<>>
  /\ UNCHANGED <<activeGenerations, isLoading, isOnline, mountOnline, localStorage, nextId,
                 awaiting, loadPc, loaded, removedInFlight, removals, blobUrls, persistedInFlight, ops, lastOp>>

\* FormData assembled, status processing, the fetch is issued
ProcessAssemble(i) ==
  /\ Settled
  /\ drives[i].pc = "uploading"
  /\ Microtask => ~drives[i].online
  /\ StatusUpdate(drives[i].id, drives[i].online, [status |-> "processing", progress |-> 25])
  /\ drives' = [drives EXCEPT ![i].pc = "processing"]
  /\ UNCHANGED <<activeGenerations, isLoading, isOnline, mountOnline, localStorage, nextId,
                 sync, awaiting, loadPc, loaded, removedInFlight, removals, blobUrls, persistedInFlight, ops, lastOp>>

\* the updates of a successful response
CompletedUpdates(d) ==
  [status |-> "completed", progress |-> 100, result |-> ResponseData, error |-> Null,
   referenceImage1Url |-> UrlOf(d.image1)]

\* a catch block that records the error and leaves the status as it was
FailedUpdatesKeepStatus(message) == [error |-> message, progress |-> 0]

\* the updates of the catch block
FailedUpdates(message) == [status |-> "failed", error |-> message, progress |-> 0]

\* the Remote Generation Call answers with response.ok
ProcessCompleted(i) ==
  /\ Quiet
  /\ drives[i].pc = "processing"
  /\ drives[i].image1 # EmptyObject
  /\ drives[i].prompt # <<>>
  /\ StatusUpdate(drives[i].id, drives[i].online, CompletedUpdates(drives[i]))
  /\ drives' = IF drives[i].online THEN [drives EXCEPT ![i].pc = "saving"] ELSE RemoveAt(drives, i)
  /\ UNCHANGED <<activeGenerations, isLoading, isOnline, mountOnline, localStorage, nextId,
                 sync, awaiting, loadPc, loaded, removedInFlight, removals, blobUrls, persistedInFlight, ops, lastOp>>

\* the Remote Generation Call rejects, is refused or answers with an error status
ProcessFailed(i, message) ==
  /\ Quiet
  /\ drives[i].pc = "processing"
  /\ StatusUpdate(drives[i].id, drives[i].online, FailedUpdates(message))
  /\ drives' = RemoveAt(drives, i)
  /\ UNCHANGED <<activeGenerations, isLoading, isOnline, mountOnline, localStorage, nextId,
                 sync, awaiting, loadPc, loaded, removedInFlight, removals, blobUrls, persistedInFlight, ops, lastOp>>

\* firestoreData of the completed generation
CompletedDocument(d) ==
  [id |-> d.id, status |-> "completed", prompt |-> d.prompt, progress |-> 100,
   result |-> ResponseData, error |-> Null, image1 |-> Null,
   referenceImage1Url |-> UrlOf(d.image1), thumbnail |-> <<>>]

\* saveGeneration(firestoreData) after the completed update, inside its own try/catch
ProcessSave(i, ok) ==
  /\ Quiet
  /\ drives[i].pc = "saving"
  /\ firestore' = IF ok THEN SaveGeneration(firestore, CompletedDocument(drives[i])) ELSE firestore
  /\ drives' = RemoveAt(drives, i)
  /\ UNCHANGED <<queue, activeGenerations, isLoading, isOnline, mountOnline, localStorage,
                 nextId, sync, awaiting, loadPc, loaded, effectsPending, removedInFlight, removals, blobUrls,
                 persistedInFlight, ops, lastOp>>

\* ---------------------------------------------------------------- queue operations
Suspended(op, id, status, job, online) ==
  [op |-> op, id |-> id, status |-> status, job |-> job, online |-> online]

\* addToQueue: its processGeneration is the first render's, so is the isOnline it sees
AddToQueue(image1, prompt) ==
  /\ Quiet
  /\ ops < MaxOps
  /\ nextId <= MaxJobs
  /\ ops' = ops + 1
  /\ LET newGeneration == NewGeneration(nextId, image1, Trim(prompt), Null,
                                         IF image1 # Null THEN <<nextId>> ELSE <<>>)
     IN /\ queue' = <<newGeneration>> \o queue
        /\ sync' = <<[gen |-> newGeneration, online |-> mountOnline]>>
  /\ blobUrls' = IF image1 # Null THEN CreateObjectURL(blobUrls, nextId) ELSE blobUrls
  /\ nextId' = nextId + 1
  /\ effectsPending' = TRUE
  /\ lastOp' = [op |-> "addToQueue", id |-> nextId]
  /\ UNCHANGED <<activeGenerations, isLoading, isOnline, mountOnline, localStorage, firestore,
                 drives, awaiting, loadPc, loaded, removedInFlight, removals, persistedInFlight>>

\* the updates retryGeneration applies
RetryUpdates == [status |-> "pending", progress |-> 0, error |-> Null]

\* the list retryGeneration's updater returns
RetryQueue(q, id) == MapUpdate(q, id, RetryUpdates)

\* whether retryGeneration's updater calls processGeneration
RetryStarts(q, id) == id \in Ids(RetryQueue(q, id))

RetryGeneration(id) ==
  /\ Ready
  /\ ops < MaxOps
  /\ ops' = ops + 1
  /\ queue' = RetryQueue(queue, id)
  /\ sync' = IF RetryStarts(queue, id)
             THEN <<[gen |-> Find(RetryQueue(queue, id), id), online |-> isOnline]>>
             ELSE <<>>
  /\ effectsPending' = TRUE
  /\ lastOp' = [op |-> "retryGeneration", id |-> id]
  /\ UNCHANGED <<activeGenerations, isLoading, isOnline, mountOnline, localStorage, firestore,
                 nextId, drives, awaiting, loadPc, loaded, removedInFlight, removals, blobUrls, persistedInFlight>>

\* image1 as runAgain recreates it
RunAgainImage(job) ==
  IF job.image1 = Null /\ job.referenceImage1Url # Null
  THEN FetchUrl(job.referenceImage1Url) ELSE job.image1

\* runAgain awaits a fetch or a Firestore save before it touches the list
RunAgainAwaits(job, online) == online \/ (job.image1 = Null /\ job.referenceImage1Url # Null)

\* the record runAgain builds
RunAgainGeneration(id, job) ==
  NewGeneration(id, RunAgainImage(job), job.prompt, job.referenceImage1Url, job.thumbnail)

\* setQueue(prev => [newGeneration, ...prev]); processGeneration(newGeneration)
RunAgainInsert(newGeneration, online) ==
  /\ queue' = <<newGeneration>> \o queue
  /\ sync' = <<[gen |-> newGeneration, online |-> online]>>
  /\ effectsPending' = TRUE

RunAgain(job, saveOk) ==
  /\ Ready
  /\ ops < MaxOps
  /\ nextId <= MaxJobs
  /\ ops' = ops + 1
  /\ nextId' = nextId + 1
  /\ firestore' = IF isOnline /\ saveOk
                  THEN SaveGeneration(firestore, Merge(RunAgainGeneration(nextId, job),
                                                       [image1 |-> Null, thumbnail |-> <<>>]))
                  ELSE firestore
  /\ IF RunAgainAwaits(job, isOnline)
     THEN /\ awaiting' = awaiting \cup
                  {Suspended("runAgain", nextId, Null, <<job>>, isOnline)}
          /\ UNCHANGED <<queue, sync, effectsPending, lastOp>>
     ELSE /\ RunAgainInsert(RunAgainGeneration(nextId, job), isOnline)
          /\ lastOp' = [op |-> "runAgain", id |-> job.id]
          /\ UNCHANGED awaiting
  /\ UNCHANGED <<activeGenerations, isLoading, isOnline, mountOnline, localStorage, drives,
                 loadPc, loaded, removedInFlight, removals, blobUrls, persistedInFlight>>

RunAgainApply(a) ==
  /\ Quiet
  /\ a.op = "runAgain"
  /\ RunAgainInsert(RunAgainGeneration(a.id, a.job[1]), a.online)
  /\ awaiting' = awaiting \ {a}
  /\ lastOp' = [op |-> "runAgainApply", id |-> a.id]
  /\ UNCHANGED <<activeGenerations, isLoading, isOnline, mountOnline, localStorage, firestore,
                 nextId, drives, loadPc, loaded, removedInFlight, removals, blobUrls, persistedInFlight, ops>>

\* the fetch of a stored reference image rejects: runAgain throws, nothing is queued
RunAgainFetchFailed(job) ==
  /\ Ready
  /\ ops < MaxOps
  /\ ops' = ops + 1
  /\ job.image1 = Null /\ job.referenceImage1Url # Null
  /\ UNCHANGED <<queue, nextId, lastOp, activeGenerations, isLoading, isOnline, mountOnline, localStorage,
                 firestore, sync, drives, awaiting, loadPc, loaded, effectsPending,
                 removedInFlight, removals, blobUrls, persistedInFlight>>

\* the ids removeFromQueue was already called with: a caller may pass one again
Removed == {removals[i] : i \in DOMAIN removals}

\* history: was a processGeneration coroutine of this id alive when it was removed
RemoveOp(id) ==
  [op |-> IF \E i \in DOMAIN drives : drives[i].id = id
          THEN "removeFromQueueMidFlight" ELSE "removeFromQueue", id |-> id]

\* a variant of the updater with a status guard: it keeps a record that is in flight
RemoveUpdateGuarded(id) ==
  /\ queue' = SelectSeq(queue, LAMBDA item : item.id # id \/ item.status \in ActiveStatuses)
  /\ lastOp' = RemoveOp(id)
  /\ removedInFlight' = removedInFlight
  /\ removals' = Append(removals, id)
  /\ blobUrls' = RevokeThumbnails(blobUrls, SelectSeq(queue, LAMBDA item :
                                     item.id = id /\ item.status \notin ActiveStatuses))
  /\ effectsPending' = TRUE

\* the updater of removeFromQueue
RemoveUpdate(id) ==
  /\ queue' = FilterOutId(queue, id)
  /\ lastOp' = RemoveOp(id)
  /\ removedInFlight' =
       IF id \in Ids(queue) /\ \E i \in DOMAIN drives : drives[i].id = id /\ drives[i].pc = "processing"
       THEN removedInFlight \cup {id} ELSE removedInFlight
  /\ removals' = Append(removals, id)
  /\ blobUrls' = RevokeThumbnails(blobUrls, IF id \in Ids(queue) THEN <<Find(queue, id)>> ELSE <<>>)
  /\ effectsPending' = TRUE

RemoveFromQueue(id) ==
  /\ Ready
  /\ ops < MaxOps
  /\ ops' = ops + 1
  /\ IF isOnline
     THEN /\ firestore' = DeleteGeneration(firestore, id)
          /\ awaiting' = awaiting \cup {Suspended("removeFromQueue", id, Null, <<>>, isOnline)}
          /\ UNCHANGED <<queue, removedInFlight, removals, blobUrls, effectsPending, lastOp>>
     ELSE /\ RemoveUpdate(id)
          /\ UNCHANGED <<firestore, awaiting>>
  /\ UNCHANGED <<activeGenerations, isLoading, isOnline, mountOnline, localStorage, nextId,
                 sync, drives, loadPc, loaded, persistedInFlight>>

RemoveApply(a) ==
  /\ Quiet
  /\ a.op = "removeFromQueue"
  /\ RemoveUpdate(a.id)
  /\ awaiting' = awaiting \ {a}
  /\ UNCHANGED <<activeGenerations, isLoading, isOnline, mountOnline, localStorage, firestore,
                 nextId, sync, drives, loadPc, loaded, persistedInFlight, ops>>

\* clearCompleted and clearFailed differ only in the status they name
ClearUpdate(status) ==
  /\ queue' = FilterOutStatus(queue, status)
  /\ blobUrls' = RevokeThumbnails(blobUrls, SelectSeq(queue, LAMBDA item : item.status = status))
  /\ effectsPending' = TRUE

Clear(status, name) ==
  /\ Ready
  /\ ops < MaxOps
  /\ ops' = ops + 1
  /\ IF isOnline /\ IdsWithStatus(queue, status) # {}
     THEN /\ firestore' = DeleteGenerations(firestore, IdsWithStatus(queue, status))
          /\ awaiting' = awaiting \cup {Suspended(name, 0, status, <<>>, isOnline)}
          /\ UNCHANGED <<queue, blobUrls, effectsPending, lastOp>>
     ELSE /\ ClearUpdate(status)
          /\ lastOp' = [op |-> name, id |-> Len(queue) - Len(queue')]
          /\ UNCHANGED <<firestore, awaiting>>
  /\ UNCHANGED <<activeGenerations, isLoading, isOnline, mountOnline, localStorage, nextId,
                 sync, drives, loadPc, loaded, removedInFlight, removals, persistedInFlight>>

ClearCompleted == Clear("completed", "clearCompleted")

ClearFailed == Clear("failed", "clearFailed")

ClearApply(a) ==
  /\ Quiet
  /\ a.op \in {"clearCompleted", "clearFailed"}
  /\ ClearUpdate(a.status)
  /\ awaiting' = awaiting \ {a}
  /\ lastOp' = [op |-> a.op, id |-> Len(queue) - Len(queue')]
  /\ UNCHANGED <<activeGenerations, isLoading, isOnline, mountOnline, localStorage, firestore,
                 nextId, sync, drives, loadPc, loaded, removedInFlight, removals, persistedInFlight,
                 ops>>

\* ---------------------------------------------------------------- initial state
\* The two stores outlive the hook.  A first mount finds them either empty or
\* as an earlier online session left them after one generation with a
\* reference image completed and was saved.
PriorDrive == Drive(NewGeneration(PriorId, "file", <<"b">>, Null, <<PriorId>>), TRUE, "saving")

PriorRecord ==
  Merge(NewGeneration(PriorId, "file", <<"b">>, Null, <<PriorId>>), CompletedUpdates(PriorDrive))

\* first: the first id uuidv4 hands out
InitWith(first) ==
  /\ queue = <<>>
  /\ activeGenerations = 0
  /\ isLoading = TRUE
  /\ isOnline \in BOOLEAN
  /\ mountOnline = isOnline
  /\ \E prior \in BOOLEAN :
       /\ localStorage = IF prior THEN [saved |-> TRUE, items |-> Serialize(<<PriorRecord>>)]
                         ELSE [saved |-> FALSE, items |-> <<>>]
       /\ firestore = IF prior THEN SaveGeneration(<<>>, CompletedDocument(PriorDrive)) ELSE <<>>
  /\ nextId = first
  /\ sync = <<>>
  /\ drives = <<>>
  /\ awaiting = {}
  /\ loadPc = "start"
  /\ loaded = <<>>
  /\ effectsPending = FALSE
  /\ removedInFlight = {}
  /\ removals = <<>>
  /\ blobUrls = NoBlobUrls
  /\ persistedInFlight = [local |-> {}, remote |-> {}]
  /\ ops = 0
  /\ lastOp = NoOp("mount")

Init == InitWith(1)

\* the same first mount with room for one more generation in the session
InitMoreJobs == InitWith(0)

\* ---------------------------------------------------------------- specification
Next ==
  \/ RunEffects
  \/ LoadStart
  \/ LoadFetchFailed
  \/ LoadFetched
  \/ LoadUpdated
  \/ ToggleOnline
  \/ Reload
  \/ ProcessStart
  \/ \E i \in DOMAIN drives : ProcessAssemble(i)
  \/ \E i \in DOMAIN drives : ProcessCompleted(i)
  \/ \E i \in DOMAIN drives, message \in ErrorMessages : ProcessFailed(i, message)
  \/ \E i \in DOMAIN drives, ok \in BOOLEAN : ProcessSave(i, ok)
  \/ \E s \in Submissions : AddToQueue(s.image1, s.prompt)
  \/ \E id \in Ids(queue) \cup {UnknownId} : RetryGeneration(id)
  \/ \E i \in DOMAIN queue, saveOk \in BOOLEAN : RunAgain(queue[i], saveOk)
  \/ \E a \in awaiting : RunAgainApply(a)
  \/ \E i \in DOMAIN queue : RunAgainFetchFailed(queue[i])
  \/ \E id \in Ids(queue) \cup {UnknownId} \cup Removed : RemoveFromQueue(id)
  \/ \E a \in awaiting : RemoveApply(a)
  \/ ClearCompleted
  \/ ClearFailed
  \/ \E a \in awaiting : ClearApply(a)

Spec == Init /\ [][Next]_vars

\* The forms that call addToQueue return early on a blank prompt, so Spec
\* submits none.  SpecDirect adds the calls of addToQueue itself with a prompt
\* that is empty or only whitespace.
BlankSubmissions == { [prompt |-> <<>>, image1 |-> Null], [prompt |-> <<" ">>, image1 |-> Null] }

NextDirect ==
  \/ Next
  \/ \E s \in BlankSubmissions : AddToQueue(s.image1, s.prompt)

SpecDirect == Init /\ [][NextDirect]_vars

\* Spec with one more generation per session: two calls that each create a
\* record can then overlap
SpecMoreJobs == InitMoreJobs /\ [][Next]_vars

\* addToQueue with a reference image: the form passes the chosen File
FileSubmissions == { [prompt |-> <<"a">>, image1 |-> "file"] }

NextFiles ==
  \/ Next
  \/ \E s \in FileSubmissions : AddToQueue(s.image1, s.prompt)

\* SpecMoreJobs with uploads: a record with a blob URL thumbnail can be run again
SpecFiles == InitMoreJobs /\ [][NextFiles]_vars

\* ================================================================ claims
\* the step is the list update of a queue operation
IsEvent == lastOp' # lastOp /\ lastOp'.op # "idle"

\* the step resumes a suspended handler
IsResume == awaiting' # awaiting /\ awaiting' \subseteq awaiting

StatusesOf(q, id) == {q[i].status : i \in {j \in DOMAIN q : q[j].id = id}}

AllowedTransitions ==
  { <<"pending", "uploading">>, <<"uploading", "processing">>, <<"processing", "completed">>,
    <<"processing", "failed">>, <<"failed", "pending">> }

\* C1: within one session every status change of a record that stays in the
\* list is pending->uploading, uploading->processing, processing->completed,
\* processing->failed or failed->pending.
C1_OnlyLifecycleTransitions ==
  [][ loadPc' = loadPc =>
        \A id \in Ids(queue) \cap Ids(queue') :
          \A b \in StatusesOf(queue', id) :
            \/ b \in StatusesOf(queue, id)
            \/ \E a \in StatusesOf(queue, id) : <<a, b>> \in AllowedTransitions ]_vars

\* the ways a startup load ends: offline path, error fallback, online path
LoadEndOps == {"loadOffline", "loadFallback", "loadOnline", "loadUpdated"}

\* the records the load path that just ended had to restore: the local blob is
\* read on every path, the remote collection on the online path
PersistedInFlight ==
  persistedInFlight.local \cup
    (IF lastOp.op \in {"loadOnline", "loadUpdated"} THEN persistedInFlight.remote ELSE {})

\* C2: every record persisted (locally or remotely) with an in-flight status
\* is in the list with status failed once the next startup load has completed,
\* on the online, the offline and the error-fallback path.
C2_ReloadFailsInFlight ==
  (lastOp.op \in LoadEndOps /\ loadPc = "done") =>
    \A id \in PersistedInFlight :
      \E i \in DOMAIN queue : queue[i].id = id /\ queue[i].status = "failed"

\* C3: retryGeneration(id) on an id that is not failed, or not in the list,
\* leaves the list unchanged and starts no drive sequence.
C3_RetryNonFailedIsNoOp ==
  [][ (IsEvent /\ lastOp'.op = "retryGeneration"
         /\ "failed" \notin StatusesOf(queue, lastOp'.id))
        => (queue' = queue /\ sync' = <<>> /\ drives' = drives) ]_vars

\* C4: result is non-null only if completed, error is non-null only if
\* failed, never both, and both are null while pending, uploading or processing.
C4_ResultErrorMatchStatus ==
  \A i \in DOMAIN queue :
    /\ queue[i].result # Null => queue[i].status = "completed"
    /\ queue[i].error # Null => queue[i].status = "failed"
    /\ ~(queue[i].result # Null /\ queue[i].error # Null)
    /\ queue[i].status \in ActiveStatuses => (queue[i].result = Null /\ queue[i].error = Null)

\* C5: progress = 100 iff status = completed, and progress = 0 whenever the
\* status is pending or failed, also right after a startup load.
C5_ProgressMatchesStatus ==
  \A i \in DOMAIN queue :
    /\ (queue[i].progress = 100) <=> (queue[i].status = "completed")
    /\ queue[i].status \in {"pending", "failed"} => queue[i].progress = 0

\* C6: whenever the queue and its stats are returned together (every render,
\* i.e. outside a synchronous block), stats.active is the number of in-flight
\* records of that queue.
C6_ActiveCountCurrent ==
  sync = <<>> => activeGenerations = ActiveCount(queue)

\* the input a record stands for: the file it holds, else the stored reference
InputOf(r) == IF r.image1 # Null THEN r.image1 ELSE FetchUrl(r.referenceImage1Url)

RunAgainPost(job, old, new) ==
  /\ Len(new) = Len(old) + 1
  /\ \A i \in DOMAIN old : new[i + 1] = old[i]
  /\ new[1].id # job.id
  /\ new[1].id \notin Ids(old)
  /\ new[1].prompt = job.prompt
  /\ InputOf(new[1]) = InputOf(job)
  /\ new[1].status = "pending" /\ new[1].progress = 0
  /\ new[1].result = Null /\ new[1].error = Null

\* C7: runAgain(job) changes no record already in the list and adds exactly
\* one new pending record (progress 0, no result, no error) with a fresh id,
\* job's prompt and job's inputs; retryGeneration keeps the ids of the list.
C7_RunAgainAddsFreshCopy ==
  [][ /\ (IsEvent /\ lastOp'.op = "runAgain" /\ awaiting' = awaiting)
         => \E i \in DOMAIN queue : queue[i].id = lastOp'.id /\ RunAgainPost(queue[i], queue, queue')
      /\ \A a \in awaiting \ awaiting' :
           (a.op = "runAgain" /\ lastOp'.op = "runAgainApply")
             => RunAgainPost(a.job[1], queue, queue')
      /\ (IsEvent /\ lastOp'.op = "retryGeneration")
         => [i \in DOMAIN queue' |-> queue'[i].id] = [i \in DOMAIN queue |-> queue[i].id] ]_vars

\* C8: when removeFromQueue(id) has finished (its list update is committed
\* and the effects of that render have run; no drive sequence of id was
\* alive), no record with that id is in the list, in the local store or in
\* the remote store.
C8_RemovedEverywhere ==
  [][ (lastOp.op = "removeFromQueue" /\ effectsPending /\ ~effectsPending') =>
        /\ lastOp.id \notin Ids(queue')
        /\ lastOp.id \notin Ids(localStorage'.items)
        /\ lastOp.id \notin JobIdsIn(firestore') ]_vars

\* the coroutines of processGeneration that work on id
DrivesOf(ds, id) == SelectSeq(ds, LAMBDA d : d.id = id)

\* the step is a coroutine of id going on after its Remote Generation Call was answered
IsResolutionOf(id) == ops' = ops /\ DrivesOf(drives', id) # DrivesOf(drives, id)

\* C9: once a record was removed while its Remote Generation Call was in
\* flight, the resolution of that call does not re-add it to the list and
\* writes no record with its id to the local or the remote store.
C9_LateResolutionIsNoOp ==
  [][ \A id \in removedInFlight :
        IsResolutionOf(id) =>
          /\ id \notin Ids(queue) => id \notin Ids(queue')
          /\ id \notin Ids(localStorage.items) => id \notin Ids(localStorage'.items)
          /\ id \notin JobIdsIn(firestore) => id \notin JobIdsIn(firestore') ]_vars

\* the k-th smallest element of a set of indices
Nth(S, k) == CHOOSE i \in S : Cardinality({j \in S : j <= i}) = k

\* new is old without the records of that status, everything else in place
ClearedOf(old, new, status) ==
  LET keep == {i \in DOMAIN old : old[i].status # status}
  IN /\ Len(new) = Cardinality(keep)
     /\ \A k \in DOMAIN new : new[k] = old[Nth(keep, k)]

\* C10: the list update of clearCompleted() removes all completed records and
\* no others, leaving every other record unchanged and in the same relative
\* order; clearFailed() does the same for failed; each is one list update.
C10_ClearRemovesExactlyStatus ==
  [][ (IsEvent \/ IsResume) =>
        /\ lastOp'.op = "clearCompleted" => ClearedOf(queue, queue', "completed")
        /\ lastOp'.op = "clearFailed" => ClearedOf(queue, queue', "failed") ]_vars

\* clearCompleted has just removed a completed record and kept a failed one
C10_Witness ==
  /\ lastOp.op = "clearCompleted"
  /\ lastOp.id >= 1
  /\ effectsPending
  /\ \E i \in DOMAIN queue : queue[i].status = "failed"

\* a write to Firestore was rejected in this step: the status updates of the
\* startup load (Promise.all rejects), the save of a completed generation, or
\* the save of the record runAgain has just built
PersistenceCallFailed ==
  \/ loadPc = "updating" /\ lastOp'.op = "loadFallback"
  \/ \E i \in DOMAIN drives :
       drives[i].pc = "saving" /\ drives' = RemoveAt(drives, i) /\ firestore' = firestore
         /\ ops' = ops
  \/ nextId' # nextId /\ isOnline /\ awaiting' # awaiting /\ firestore' = firestore

\* C11: a failed persistence call, at the startup load or during a session,
\* changes no status in the in-memory list and does not replace the list.
C11_PersistenceFailureKeepsList ==
  [][ PersistenceCallFailed => queue' = queue ]_vars

\* the coroutines of id that wait for the answer of the Remote Generation Call
CallsInFlight(ds, id) == SelectSeq(ds, LAMBDA d : d.id = id /\ d.pc = "processing")

\* the step is the answer (resolution or rejection) of a call made for id
IsAnswerOf(id) == ops' = ops /\ Len(CallsInFlight(drives', id)) < Len(CallsInFlight(drives, id))

\* C12: when the Remote Generation Call of a drive sequence resolves or
\* rejects, the record of that id, unless it is no longer in the list, has
\* status completed or failed: every error becomes a failed status update.
\* No coroutine ends otherwise: once none is running, no record is in flight.
C12_DriveEndsTerminal ==
  [][ /\ \A id \in Ids(queue') :
           IsAnswerOf(id) => StatusesOf(queue', id) \subseteq {"completed", "failed"}
      /\ (drives' = <<>> /\ sync' = <<>> /\ loadPc' = "done")
           => \A i \in DOMAIN queue' : queue'[i].status \notin ActiveStatuses ]_vars

\* a call has just been answered with an error and its record is failed with that error
C12_Witness ==
  /\ effectsPending
  /\ lastOp.op = "idle"
  /\ loadPc = "done"
  /\ \E i \in DOMAIN queue :
       /\ queue[i].status = "failed"
       /\ queue[i].error \in ErrorMessages
       /\ CallsInFlight(drives, queue[i].id) = <<>>

\* C13: addToQueue with a prompt that is empty or only whitespace creates no
\* Job Record: no record with a blank prompt is in the list or in a store, and
\* no drive sequence (hence no Remote Generation Call) works on one.
C13_BlankPromptRejected ==
  /\ \A i \in DOMAIN queue : queue[i].prompt # <<>>
  /\ \A i \in DOMAIN localStorage.items : localStorage.items[i].prompt # <<>>
  /\ \A i \in DOMAIN firestore : firestore[i].data.prompt # <<>>
  /\ \A i \in DOMAIN sync : sync[i].gen.prompt # <<>>
  /\ \A i \in DOMAIN drives : drives[i].prompt # <<>>

\* uuidv4() and new Date() belong to the same call, and nextId counts the
\* calls: a record created later has the larger id
NewestFirst(q) == \A i, j \in DOMAIN q : i < j => q[i].id >= q[j].id

\* C14: under addToQueue, runAgain and status updates a new record is inserted
\* at index 0, the records already present keep their relative order, and the
\* list stays in non-increasing order of creation timestamp.
C14_NewestFirstByCreation ==
  [][ loadPc' = loadPc =>
        /\ Len(queue') > Len(queue) => Tail(queue') = queue
        /\ Len(queue') = Len(queue)
             => [i \in DOMAIN queue' |-> queue'[i].id] = [i \in DOMAIN queue |-> queue[i].id]
        /\ NewestFirst(queue) => NewestFirst(queue') ]_vars

\* the step is the list update of removeFromQueue(id)
IsRemoveUpdateOf(id) ==
  /\ Len(removals') = Len(removals) + 1
  /\ removals'[Len(removals')] = id

\* the step is the call of removeFromQueue(id) while online: the remote delete
IsRemoteDeleteOf(id) ==
  \E a \in awaiting' \ awaiting : a.op = "removeFromQueue" /\ a.id = id

\* C15: removeFromQueue is idempotent.  Its list update leaves no record of
\* the id, and a further call with an id it was already called with, the
\* record still being absent, changes neither the list nor the remote store
\* (the delete of a missing document raises nothing) nor what the backup
\* effect then writes to the local store.
C15_RemoveIdempotent ==
  [][ /\ \A id \in Ids(queue) \cup {UnknownId} \cup Removed :
           IsRemoveUpdateOf(id) =>
             /\ id \notin Ids(queue')
             /\ (id \in Removed /\ id \notin Ids(queue)) =>
                  /\ queue' = queue
                  /\ firestore' = firestore
                  /\ Serialize(queue') = localStorage.items
      /\ \A id \in Removed :
           (IsRemoteDeleteOf(id) /\ id \notin Ids(queue)) => firestore' = firestore ]_vars

\* removeFromQueue has just run a second time in a row for the id of a
\* record that the first call had removed from the list and the local store
C15_Witness ==
  /\ Len(removals) >= 2
  /\ removals[Len(removals)] = removals[Len(removals) - 1]
  /\ removals[Len(removals)] # UnknownId
  /\ lastOp = [op |-> "removeFromQueue", id |-> removals[Len(removals)]]
  /\ effectsPending
  /\ localStorage.saved
  /\ removals[Len(removals)] \notin Ids(localStorage.items)
  /\ queue # <<>>

\* C16: once addToQueue has returned while the remote store is reachable, the
\* remote store holds a record with the new id (the initial pending record),
\* whatever the job does afterwards.
C16_AddPersistsInitialRecord ==
  (lastOp.op = "addToQueue" /\ sync = <<>> /\ isOnline) => lastOp.id \in JobIdsIn(firestore)

\* the step ends the i-th coroutine of processGeneration, and not with a save
\* that the remote store rejected
EndsDrive(i) ==
  /\ ops' = ops
  /\ drives' = RemoveAt(drives, i)
  /\ drives[i].pc = "saving" => firestore' # firestore

\* C17: when a drive sequence ends while the remote store is reachable and
\* its save is not rejected, the remote store holds a record with the job's
\* id whose status is the terminal status the list shows, failed as well as
\* completed.
C17_TerminalStatePersisted ==
  [][ \A i \in DOMAIN drives :
        (isOnline /\ EndsDrive(i)) =>
          \A k \in DOMAIN queue' :
            (queue'[k].id = drives[i].id /\ queue'[k].status \in {"completed", "failed"}) =>
              \E d \in DOMAIN firestore' :
                /\ firestore'[d].data.id = drives[i].id
                /\ firestore'[d].data.status = queue'[k].status ]_vars

\* the documents of the collection that carry the job id
DocsOf(store, id) == SelectSeq(store, LAMBDA d : d.data.id = id)

\* the load in progress is that of a mount: nothing is listed or running yet
AtStartup == queue = <<>> /\ drives = <<>> /\ awaiting = {}

\* C18: the online startup load (reconciliation) puts every record of the
\* local store whose id is not in the remote store into the list, whatever its
\* status, so that none is lost when the list is next written back; what it
\* adds to the remote store are copies of such records; a record whose id is
\* already in the remote store is not copied again.
C18_ReconciliationKeepsLocalRecords ==
  [][ (AtStartup /\ loadPc = "fetching" /\ lastOp'.op = "loadOnline") =>
        LET localGenerations == IF localStorage.saved THEN localStorage.items ELSE <<>>
        IN /\ \A id \in Ids(localGenerations) \ JobIdsIn(firestore) : id \in Ids(queue')
           /\ \A id \in JobIdsIn(firestore') \ JobIdsIn(firestore) :
                id \in Ids(localGenerations) /\ id \in Ids(queue')
           /\ \A id \in JobIdsIn(firestore) :
                Len(DocsOf(firestore', id)) = Len(DocsOf(firestore, id)) ]_vars

\* C19: after a startup load every record that was loaded with an in-flight
\* status is failed in the store it was loaded from: once the status updates
\* of the online path are over, no remote record of such a job is still in
\* flight; once the effects of an offline or fallback load have run, the local
\* blob holds such a record as failed.
C19_StoresHoldFailedAfterLoad ==
  [][ /\ (loadPc = "updating" /\ loadPc' = "done") =>
           \A d \in DOMAIN firestore' :
             firestore'[d].data.id \in persistedInFlight.remote
               => firestore'[d].data.status = "failed"
      /\ (lastOp.op \in {"loadOffline", "loadFallback"} /\ loadPc = "done"
            /\ effectsPending /\ ~effectsPending') =>
           \A id \in persistedInFlight.local :
             /\ id \in Ids(localStorage'.items)
             /\ StatusesOf(localStorage'.items, id) = {"failed"} ]_vars

\* isOnline has changed since the mount: the session is live and the load
\* that runs is not the startup load
ConnectivityChanged == isOnline # mountOnline \/ lastOp.op = "toggleOnline"

\* C20: in a live session the list is changed only by the queue operations
\* and the drive-sequence updates.  The load that a connectivity change
\* starts does not replace the list, and a record whose Remote Generation Call
\* is in flight is not turned into failed.
C20_LiveListNotReplaced ==
  [][ (ConnectivityChanged /\ loadPc' # loadPc /\ ops' = ops) =>
        /\ queue' = queue
        /\ \A id \in Ids(queue) :
             (CallsInFlight(drives, id) # <<>> /\ "failed" \notin StatusesOf(queue, id))
               => "failed" \notin StatusesOf(queue', id) ]_vars

\* the step is a step of a processGeneration coroutine that works on id
IsDriveStepOf(id) ==
  /\ ops' = ops
  /\ awaiting' = awaiting
  /\ loadPc' = loadPc
  /\ DrivesOf(drives', id) # DrivesOf(drives, id)

\* C21: each status update of a drive sequence changes only the records whose
\* id is that job's id, whatever the order in which the calls of several jobs
\* in flight are answered: every other record keeps all its fields, and the
\* length and the order of the list are unchanged.
C21_StatusUpdateTouchesOwnRecord ==
  [][ \A id \in {drives[i].id : i \in DOMAIN drives} \cup {drives'[i].id : i \in DOMAIN drives'} :
        IsDriveStepOf(id) =>
          /\ Len(queue') = Len(queue)
          /\ \A k \in DOMAIN queue :
               /\ queue'[k].id = queue[k].id
               /\ queue[k].id # id => queue'[k] = queue[k] ]_vars

\* a status update of one job has just run while the Remote Generation Call
\* of another job is in flight: both records are processing
C21_Witness ==
  /\ effectsPending
  /\ lastOp.op = "idle"
  /\ sync = <<>>
  /\ \E i, j \in DOMAIN queue :
       /\ queue[i].id # queue[j].id
       /\ queue[i].status = "processing" /\ CallsInFlight(drives, queue[i].id) # <<>>
       /\ queue[j].status = "processing" /\ CallsInFlight(drives, queue[j].id) # <<>>

\* the records of id in q that were enqueued with no input image
NoInputRecords(q, id) ==
  {k \in DOMAIN q : q[k].id = id /\ q[k].image1 = Null /\ q[k].referenceImage1Url = Null}

\* the coroutines of id that are at the given await
DrivesAt(ds, id, pc) == SelectSeq(ds, LAMBDA d : d.id = id /\ d.pc = pc)

\* C22: a job enqueued with no inputs goes from pending to uploading when its
\* drive sequence starts and from uploading to processing when the call is
\* issued; when the call is answered the record is either completed with
\* progress 100, a result and no error, or failed with the message of the
\* call as error, progress 0 and no result.
C22_NoInputLifecycle ==
  [][ \A id \in Ids(queue) \cap Ids(queue') :
        IsDriveStepOf(id) =>
          \A k \in NoInputRecords(queue', id) :
            /\ Len(DrivesOf(drives', id)) > Len(DrivesOf(drives, id))
                 => (queue[k].status = "pending" /\ queue'[k].status = "uploading")
            /\ Len(DrivesAt(drives', id, "uploading")) < Len(DrivesAt(drives, id, "uploading"))
                 => (queue[k].status = "uploading" /\ queue'[k].status = "processing")
            /\ IsAnswerOf(id) =>
                 \/ /\ queue'[k].status = "completed"
                    /\ queue'[k].progress = 100
                    /\ queue'[k].result # Null
                    /\ queue'[k].error = Null
                 \/ /\ queue'[k].status = "failed"
                    /\ queue'[k].error \in ErrorMessages
                    /\ queue'[k].progress = 0
                    /\ queue'[k].result = Null ]_vars


\* ---------------------------------------------------------------- C23
HandlesOf(q) == {q[k].thumbnail[1] : k \in {j \in DOMAIN q : q[j].thumbnail # <<>>}} \cap blobUrls.created

\* C23: every blob URL this page created is owned by exactly one record of the
\* list and released exactly once, when that record leaves the list: no handle
\* is shared by two records, none is released twice, no listed record refers to
\* a released handle, and no handle of a removed record stays unreleased
C23_ThumbnailOwnedAndReleasedOnce ==
  /\ \A i, j \in DOMAIN queue :
       (i # j /\ queue[i].thumbnail # <<>> /\ queue[i].thumbnail[1] \in blobUrls.created)
         => queue[j].thumbnail # queue[i].thumbnail
  /\ \A m, n \in DOMAIN blobUrls.revoked : m # n => blobUrls.revoked[m] # blobUrls.revoked[n]
  /\ \A h \in HandlesOf(queue) : \A m \in DOMAIN blobUrls.revoked : blobUrls.revoked[m] # h
  /\ \A h \in blobUrls.created \ HandlesOf(queue) : \E m \in DOMAIN blobUrls.revoked : blobUrls.revoked[m] = h


\* ---------------------------------------------------------------- C24
IdsInOrder(q) == [k \in DOMAIN q |-> q[k].id]

IsRetryOf(id) == IsEvent /\ lastOp' = [op |-> "retryGeneration", id |-> id]

\* C24: the progress of every record is an integer between 0 and 100, and a
\* step that leaves the records of the list in place never lowers the progress
\* of one of them, except that the end of a pass in failed and
\* retryGeneration(id) set it to 0
C24_ProgressMonotoneWithinPass ==
  [][ /\ \A k \in DOMAIN queue' : queue'[k].progress \in 0..100
      /\ IdsInOrder(queue') = IdsInOrder(queue) =>
           \A k \in DOMAIN queue :
             \/ queue'[k].progress >= queue[k].progress
             \/ /\ queue'[k].progress = 0
                /\ \/ IsRetryOf(queue[k].id)
                   \/ queue[k].status = "processing" /\ queue'[k].status = "failed" ]_vars


\* ---------------------------------------------------------------- C25
\* C25: a failed record that stays in the list stays failed until
\* retryGeneration is called for its id: only that call moves it out of
\* failed, and it moves it to pending with error null and progress 0
C25_FailedUntilRetry ==
  [][ IdsInOrder(queue') = IdsInOrder(queue) =>
        \A k \in DOMAIN queue :
          (queue[k].status = "failed" /\ queue'[k].status # "failed") =>
            /\ IsRetryOf(queue[k].id)
            /\ queue'[k].status = "pending"
            /\ queue'[k].error = Null
            /\ queue'[k].progress = 0 ]_vars


\* ---------------------------------------------------------------- C26
\* the step is the call runAgain(job)
IsRunAgainOf(job) ==
  /\ ops' = ops + 1
  /\ nextId' = nextId + 1
  /\ \/ awaiting' = awaiting /\ lastOp' = [op |-> "runAgain", id |-> job.id]
     \/ \E a \in awaiting' \ awaiting : a.op = "runAgain" /\ a.job = <<job>>

\* C26: runAgain(job) with a job whose status is not completed creates no
\* record, leaves the list and both stores unchanged and starts no drive sequence
C26_RunAgainRequiresCompleted ==
  [][ \A i \in DOMAIN queue :
        (IsRunAgainOf(queue[i]) /\ queue[i].status # "completed") =>
          /\ queue' = queue
          /\ localStorage' = localStorage
          /\ firestore' = firestore
          /\ awaiting' = awaiting
          /\ sync' = <<>>
          /\ drives' = drives ]_vars


\* ---------------------------------------------------------------- C27
IsClear(a) == a.op \in {"clearCompleted", "clearFailed"}

\* the ids of the documents a step deletes from the remote store
RemotelyDeleted ==
  {firestore[i].data.id : i \in {j \in DOMAIN firestore :
                                   \A n \in DOMAIN firestore' : firestore'[n].docId # firestore[j].docId}}

\* C27: an online clearCompleted() or clearFailed() deletes from the remote
\* store exactly the records it removes from the list: what its call deletes
\* remotely has the status it clears, and when its list update has run no
\* record it removed from the list is left in the remote store, also when a
\* record changed status in between
C27_ClearDeletesWhatItRemoves ==
  [][ /\ \A a \in awaiting' \ awaiting :
           IsClear(a) => RemotelyDeleted \subseteq IdsWithStatus(queue, a.status)
      /\ \A a \in awaiting \ awaiting' :
           (IsClear(a) /\ awaiting' = awaiting \ {a} /\ lastOp'.op = a.op) =>
             \A id \in Ids(queue) \ Ids(queue') : DocsOf(firestore', id) = <<>> ]_vars


\* ---------------------------------------------------------------- C28
IsMidFlight(q, id) == StatusesOf(q, id) \cap ActiveStatuses # {}

\* removeFromQueue(id) on a record that is pending, uploading or processing
\* changes neither the list nor the stores
C28_RemoveMidFlightIsNoOp ==
  [][ \A id \in Ids(queue) :
        ((IsRemoteDeleteOf(id) \/ IsRemoveUpdateOf(id)) /\ IsMidFlight(queue, id)) =>
          /\ queue' = queue
          /\ localStorage' = localStorage
          /\ firestore' = firestore ]_vars

\* C28: removeFromQueue(id) has no status guard.  Called on a record that is
\* pending, uploading or processing, its list update removes every record of
\* that id like any other and keeps the other records in place; the drive
\* sequence of the record is not cancelled.
C28_RemoveMidFlightRemoves ==
  [][ \A id \in Ids(queue) :
        (IsRemoveUpdateOf(id) /\ IsMidFlight(queue, id)) =>
          /\ id \notin Ids(queue')
          /\ queue' = SelectSeq(queue, LAMBDA item : item.id # id)
          /\ drives' = drives ]_vars

\* the list update of removeFromQueue just dropped a record that was counted
\* as active and whose drive sequence is still running
C28_Witness ==
  /\ effectsPending
  /\ lastOp.op = "removeFromQueueMidFlight"
  /\ lastOp.id \notin Ids(queue)
  /\ DrivesOf(drives, lastOp.id) # <<>>
  /\ activeGenerations > ActiveCount(queue)
  /\ queue # <<>>


\* ---------------------------------------------------------------- C29
\* C29: in every reachable state no two records of the list have the same id,
\* and no two documents of the remote store carry the same job id
C29_IdsUnique ==
  /\ \A i, j \in DOMAIN queue : i # j => queue[i].id # queue[j].id
  /\ \A i, j \in DOMAIN firestore : i # j => firestore[i].data.id # firestore[j].data.id


\* ---------------------------------------------------------------- C30
\* C30: at any time at most one drive sequence, and so at most one Remote
\* Generation Call, is in flight for a record id, and the calls issued for an
\* id are one for its creation plus one for each move from failed to pending:
\* a retryGeneration(id) that starts a drive sequence finds the record failed
C30_OneDrivePerId ==
  [][ /\ \A i, j \in DOMAIN drives' : i # j => drives'[i].id # drives'[j].id
      /\ \A id \in Ids(queue) :
           (IsRetryOf(id) /\ sync' # <<>>) => StatusesOf(queue, id) = {"failed"} ]_vars

====
